---- MODULE Spec2Model ----
(***************************************************************************)
(* blast2xl: tabular BLAST results -> XLSX report and taxonomy-sorted      *)
(* sequence directories.  The pure computations (subj_cov, the pandas      *)
(* sort/group/head pipeline, bucket labelling, reverse complement) are     *)
(* operators; cli.main is the state machine that calls them.               *)
(*                                                                         *)
(* Numbers: Percent_Identity is a float in the source; here it is a whole  *)
(* percentage and the arithmetic is exact (no float rounding).             *)
(* Text: a Python str is a sequence of one-character strings wherever its  *)
(* characters matter (scientific names, directory names).                  *)
(***************************************************************************)
EXTENDS Integers, Sequences, FiniteSets, TLC

VARIABLES
    dfg,              \* subj_cov: the group of rows it is called on
    cov_pc,           \* subj_cov: "idle", "call" before, "returned" or "raised" after
    cov_result,       \* subj_cov: the returned Series (raised # "": the exception)
    sample_blast_tsv, \* main: sample name -> hit-table file
    top_n_results,    \* main: --top-n-results
    seq_dir,          \* main: whether --seq-dir was given
    fastas,           \* main: sample name -> FASTA file (record id -> SeqRecord)
    keep_orientation, \* main: --keep-orientation
    main_pc,          \* main: "idle", "ingest", "report", "collect", "partition",
                      \*       "done", "aborted"
    error,            \* main: the exception that ended the run, "" if none
    sample_order,     \* blast_tsv_to_df: the samples ingested so far, in dict order
    sample_dfs,       \* blast_tsv_to_df: sample name -> DataFrame (sequence of rows)
    xlsx,             \* the spreadsheet written by output_xlsx_report
    present_fastas,   \* collect_fastas: samples with a hit table and a FASTA file
    partitioned,      \* write_seqs_to_taxonomy_dirs: samples whose loop body ended
    recs,             \* write_seqs_to_taxonomy_dirs: sample -> its recs dict at the writes
    dirs,             \* directories created under seq_outdir: <<sample, dirname>>
    outfiles          \* FASTA files written: [sample, dirname, records]

cov_vars == <<dfg, cov_pc, cov_result>>

input_vars == <<sample_blast_tsv, top_n_results, seq_dir, fastas, keep_orientation>>

main_vars == <<main_pc, error, sample_order, sample_dfs, xlsx, present_fastas,
               partitioned, recs, dirs, outfiles>>

----------------------------------------------------------------------------
(* Bounds of the explored inputs *)
MaxSubjLen == 3
MaxAlns == 2
MaxRows == 2
MaxPartRows == 2
MaxSubjects == 6

PidValues == {0, 99, 100}
AlnValues == {0, 1, 2}

----------------------------------------------------------------------------
(* generic helpers *)

RECURSIVE SumSeq(_)
SumSeq(s) == IF s = <<>> THEN 0 ELSE Head(s) + SumSeq(Tail(s))

SeqsUpTo(S, n) == UNION {[1..k -> S] : k \in 0..n}

----------------------------------------------------------------------------
(* blast2xl.py subj_cov *)

\* cov_mask[direction, start:(end + 1)] = True on an array of arrlen cells:
\* the cells with index start..end that exist (a slice stops at the array end)
Slice(start, end, arrlen) ==
    {i \in 0..(arrlen - 1) : start <= i /\ i < end + 1}

\* the for loop over zip(starts, ends), rows 1..n, restricted to one row of
\* cov_mask (direction 0: start <= end, direction 1: start > end, swapped)
RECURSIVE CovMaskRow(_, _, _, _)
CovMaskRow(rows, n, direction, arrlen) ==
    IF n = 0 THEN {}
    ELSE LET start == rows[n].Subject_Start
             end == rows[n].Subject_End
             dir == IF start > end THEN 1 ELSE 0
             lo == IF start > end THEN end ELSE start
             hi == IF start > end THEN start ELSE end
         IN  CovMaskRow(rows, n - 1, direction, arrlen)
                \cup (IF dir = direction THEN Slice(lo, hi, arrlen) ELSE {})

\* faulty variant of TotalCov: the two rows of the mask summed separately
TotalCovSummed(fwd, rev) == Cardinality(fwd) + Cardinality(rev)

\* (cov_mask[0] | cov_mask[1]).sum()
TotalCov(fwd, rev) == Cardinality(fwd \cup rev)

\* np.sum(pids * alns) and np.sum(alns)
PidSum(rows) ==
    SumSeq([k \in 1..Len(rows) |-> rows[k].Percent_Identity * rows[k].Alignment_Length])

AlnSum(rows) == SumSeq([k \in 1..Len(rows) |-> rows[k].Alignment_Length])

\* int(np.sum(pids * alns) / np.sum(alns) * 100), for np.sum(alns) > 0
PidAln(rows) == (PidSum(rows) * 100) \div AlnSum(rows)

subj_cov(rows) ==
    LET arrlen == rows[1].Subject_Length
        fwd == CovMaskRow(rows, Len(rows), 0, arrlen)
        rev == CovMaskRow(rows, Len(rows), 1, arrlen)
        total_cov == TotalCov(fwd, rev)
    IN  \* 0.0 / 0 is nan and int(nan) raises ValueError
        IF AlnSum(rows) = 0 THEN [raised |-> "ValueError"]
        ELSE [raised |-> "",
              total_aligned_positions |-> total_cov,
              subject_length |-> arrlen,
              unaligned_positions |-> arrlen - total_cov,
              forward_aligned_positions |-> Cardinality(fwd),
              reverse_aligned_positions |-> Cardinality(rev),
              forward_reverse_aligned_positions_overlap |-> Cardinality(fwd \cap rev),
              n_alignments |-> Len(rows),
              avg_pid |-> PidAln(rows)]

----------------------------------------------------------------------------
(* pandas operations the source calls *)

\* Python's order of the strings used as Query, Subject and Sample values
StrOrder == <<"A", "B", "C", "D", "E", "F", "G", "q1", "q2", "q3", "s1", "s2">>

Ord(str) == CHOOSE i \in DOMAIN StrOrder : StrOrder[i] = str

\* the rows of df at the indices in keep, in df's order
SelectIdx(df, keep) ==
    [k \in 1..Cardinality(keep) |->
        df[CHOOSE i \in keep : Cardinality({j \in keep : j < i}) = k - 1]]

\* the order of two sort keys (tuples of numbers of one length): by the first
\* column that differs
LexLess(a, b) ==
    \E i \in DOMAIN a : a[i] < b[i] /\ \A j \in 1..(i - 1) : a[j] = b[j]

\* DataFrame.sort_values on several columns, keys[i] the sort key of row i
\* (a descending column negated): pandas sorts several columns with a
\* lexsort, which is stable (rows with equal keys keep their order)
StableSort(df, keys) ==
    LET n == Len(df)
        pos(i) == 1 + Cardinality({j \in 1..n :
                          LexLess(keys[j], keys[i]) \/ (keys[j] = keys[i] /\ j < i)})
    IN  [k \in 1..n |-> df[CHOOSE i \in 1..n : pos(i) = k]]

\* df.groupby(key).first(), keys[i] the group key of row i: one row per key
\* value, the first of its group, in the order of the key (no column of a row
\* is null in this model)
GroupFirst(df, keys) ==
    LET firsts == {i \in 1..Len(df) : \A j \in 1..(i - 1) : keys[j] # keys[i]}
    IN  StableSort(SelectIdx(df, firsts), SelectIdx(keys, firsts))

\* faulty variant of GroupHead: one row too many per group
GroupHeadOneMore(df, n) ==
    SelectIdx(df, {i \in 1..Len(df) :
        Cardinality({j \in 1..(i - 1) : df[j].Query = df[i].Query}) <= n})

\* df.groupby('Query').head(n): the first n rows of every group, in df's order
GroupHead(df, n) ==
    SelectIdx(df, {i \in 1..Len(df) :
        Cardinality({j \in 1..(i - 1) : df[j].Query = df[i].Query}) < n})

----------------------------------------------------------------------------
(* io.py read_blast_tsv, blast2xl.py blast_tsv_to_df *)

\* a hit-table file: its rows, or malformed (a row pandas cannot coerce to
\* the column types). A file without rows parses: header=None with names
\* given makes read_table return a DataFrame of the 17 columns and no rows
ReadRaises(file) == file.malformed

\* the parsed DataFrame; row is the position of the record in the file
\* (the DataFrame's index), which tells duplicate records apart
read_blast_tsv(file) == [i \in DOMAIN file.rows |-> file.rows[i] @@ ("row" :> i)]

\* faulty variant of QueryAscBitscoreDesc: the bitscore ascending
QueryAscBitscoreAsc(r) == <<Ord(r.Query), r.Bitscore>>

\* the sort key of sort_values(['Query', 'Bitscore'], ascending=[True, False])
QueryAscBitscoreDesc(r) == <<Ord(r.Query), -r.Bitscore>>

\* one iteration of the loop of blast_tsv_to_df, for a file that parses
SampleDf(sample, file, n) ==
    LET df == [i \in DOMAIN file.rows |->
                  read_blast_tsv(file)[i] @@ ("Sample" :> sample)]
        sorted == StableSort(df, [i \in DOMAIN df |-> QueryAscBitscoreDesc(df[i])])
    IN  IF n > 0 THEN GroupHead(sorted, n) ELSE sorted

----------------------------------------------------------------------------
(* blast2xl.py output_xlsx_report *)

HeadSubjects == 5

AvgPidScale == 10000

\* the key of sort_values(['Sample', 'Query']) and groupby(['Sample', 'Query'])
SampleQueryKey(r) == <<Ord(r.Sample), Ord(r.Query)>>

SampleQueryKeys(df) == [i \in DOMAIN df |-> SampleQueryKey(df[i])]

RECURSIVE ConcatDfs(_, _)
ConcatDfs(order, dfs) ==
    IF order = <<>> THEN <<>> ELSE dfs[Head(order)] \o ConcatDfs(Tail(order), dfs)

\* pd.concat(...).sort_values(['Sample', 'Query'])
DfConcat(order, dfs) ==
    StableSort(ConcatDfs(order, dfs), SampleQueryKeys(ConcatDfs(order, dfs)))

\* df_concat.groupby(['Sample', 'Query']).first().reset_index().sort_values(...)
TopResultsPerQuerySeq(df_concat) ==
    LET firsts == GroupFirst(df_concat, SampleQueryKeys(df_concat))
    IN  StableSort(firsts, SampleQueryKeys(firsts))

\* the key of groupby('Subject')
SubjectKey(r) == <<Ord(r.Subject)>>

\* the sort key of sort_values(['total_aligned_positions', 'avg_pid'], ascending=False)
SummaryKey(r) == <<-r.total_aligned_positions, -r.avg_pid>>

\* groupby('Subject').apply(subj_cov): one row per subject, in subject order
SubjectGroups(df) ==
    LET firsts == GroupFirst(df, [i \in DOMAIN df |-> SubjectKey(df[i])])
    IN  [k \in DOMAIN firsts |->
            SelectIdx(df, {i \in 1..Len(df) : df[i].Subject = firsts[k].Subject})]

SubjCovRows(df) ==
    LET groups == SubjectGroups(df)
    IN  [k \in DOMAIN groups |->
            subj_cov(groups[k]) @@ ("Subject" :> groups[k][1].Subject)]

\* .head(5) and then sort_values(...)
HeadThenSort(rows) ==
    LET head == SubSeq(rows, 1, IF Len(rows) < HeadSubjects THEN Len(rows) ELSE HeadSubjects)
    IN  StableSort(head, [k \in DOMAIN head |-> SummaryKey(head[k])])

SummaryRaises(df) == \E k \in DOMAIN SubjectGroups(df) : AlnSum(SubjectGroups(df)[k]) = 0

\* groupby('Subject').apply(subj_cov) of a DataFrame without rows has no
\* column total_aligned_positions, and sort_values on it raises KeyError
SummaryLacksColumns(df) == df = <<>>

\* the exception of the first sample, in the order of sample_blast, whose
\* summary cannot be computed, "" if there is none
RECURSIVE SummaryError(_, _)
SummaryError(order, dfs) ==
    IF order = <<>> THEN ""
    ELSE IF SummaryLacksColumns(dfs[Head(order)]) THEN "KeyError"
    ELSE IF SummaryRaises(dfs[Head(order)]) THEN "ValueError"
    ELSE SummaryError(Tail(order), dfs)

\* the body of the loop over sample_blast: the Summary rows of one sample;
\* avg_pid / 10000 and total / subject_length are kept as <<numerator, denominator>>
SampleSummary(sample, df) ==
    LET kept == HeadThenSort(SubjCovRows(df))
    IN  [k \in DOMAIN kept |->
            [kept[k] EXCEPT !.avg_pid = <<@, AvgPidScale>>]
                @@ ("p_aligned" :> <<kept[k].total_aligned_positions, kept[k].subject_length>>)
                @@ ("sample" :> sample)]

RECURSIVE ConcatSummaries(_, _)
ConcatSummaries(order, dfs) ==
    IF order = <<>> THEN <<>>
    ELSE SampleSummary(Head(order), dfs[Head(order)]) \o ConcatSummaries(Tail(order), dfs)

----------------------------------------------------------------------------
(* io.py write_seqs_to_taxonomy_dirs, util.py invert_dict *)

\* the characters \w matches, among those the names of this model use
WordChars ==
    {"a", "c", "d", "e", "f", "i", "l", "n", "s", "u", "v", "F", "M", "D", "V", "O",
     "0", "1", "2", "3", "4", "5", "6", "7", "8", "9", "_"}

\* Series.str.replace(r'\W', '_')
Sanitize(name) ==
    [i \in DOMAIN name |-> IF name[i] \in WordChars THEN name[i] ELSE "_"]

\* astype(str) of an unsigned taxid
RECURSIVE Digits(_)
Digits(n) == IF n < 10 THEN <<ToString(n)>> ELSE Digits(n \div 10) \o <<ToString(n % 10)>>

\* Subject_Sciname.str.replace(r'\W', '_') + '-' + Subject_taxid.astype(str)
Dirname(row) == Sanitize(row.Subject_Sciname) \o <<"-">> \o Digits(row.Subject_taxid)

NoHitsDir == <<"0", "-", "n", "o", "-", "h", "i", "t", "s">>

\* the key of groupby('Query')
QueryKey(r) == <<Ord(r.Query)>>

\* df.groupby('Query').first()
DfTop(df) == GroupFirst(df, [i \in DOMAIN df |-> QueryKey(df[i])])

TopRow(df_top, q) == df_top[CHOOSE k \in DOMAIN df_top : df_top[k].Query = q]

Queries(df_top) == {df_top[k].Query : k \in DOMAIN df_top}

\* invert_dict(query_dirname): the directory names in insertion order, and the
\* queries of each
DirnameOrder(df_top) ==
    LET names == [k \in DOMAIN df_top |-> Dirname(df_top[k])]
        firsts == SelectIdx(names, {i \in DOMAIN names : \A j \in 1..(i - 1) : names[j] # names[i]})
    IN  firsts

DirnameQueries(df_top, dirname) ==
    {df_top[k].Query : k \in {i \in DOMAIN df_top : Dirname(df_top[i]) = dirname}}

Complement(base) ==
    CASE base = "A" -> "T" [] base = "T" -> "A" [] base = "C" -> "G" [] base = "G" -> "C"

\* Seq.reverse_complement()
ReverseComplement(sequence) ==
    [i \in DOMAIN sequence |-> Complement(sequence[Len(sequence) + 1 - i])]

\* faulty variant of NeedRevcomp: the comparison inverted
NeedRevcompInverted(df_top) ==
    {df_top[k].Query : k \in {i \in DOMAIN df_top : df_top[i].Subject_Start < df_top[i].Subject_End}}

\* set(df_top.index.values[df_top.Subject_Start > df_top.Subject_End])
NeedRevcomp(df_top) ==
    {df_top[k].Query : k \in {i \in DOMAIN df_top : df_top[i].Subject_Start > df_top[i].Subject_End}}

\* the loop over recs.items() when keep_orientation is false: the record out[rid]
Oriented(r, rid, df_top, missing_recs) ==
    LET r1 == IF rid \in NeedRevcomp(df_top)
              THEN [id |-> rid, name |-> r.name,
                    description |-> r.description \o <<"|REVCOMP">>,
                    seq |-> ReverseComplement(r.seq)]
              ELSE r
        top == TopRow(df_top, rid)
    IN  IF rid \notin missing_recs
        THEN [r1 EXCEPT !.description =
                 @ \o <<"|TOP_ACC=", top.Subject,
                        "|TOP_%ID=", ToString(top.Percent_Identity),
                        "|TOP_ALN_LEN=", ToString(top.Alignment_Length),
                        "|TOP_NAME=", top.Subject_Title>>]
        ELSE r1

\* recs when the files are written
RecsAtWrite(fasta, df_top, keep) ==
    LET missing_recs == DOMAIN fasta \ Queries(df_top)
    IN  IF keep THEN fasta
        ELSE [rid \in DOMAIN fasta |-> Oriented(fasta[rid], rid, df_top, missing_recs)]

\* the first directory whose queries are not all in recs: recs[q] raises KeyError
\* there (0 if none)
FirstKeyError(df_top, ids) ==
    LET order == DirnameOrder(df_top)
        bad == {k \in DOMAIN order : ~(DirnameQueries(df_top, order[k]) \subseteq ids)}
    IN  IF bad = {} THEN 0 ELSE CHOOSE k \in bad : \A j \in bad : k <= j

----------------------------------------------------------------------------
(* cli.py main *)

NoReport == [written |-> FALSE, summary |-> <<>>, top |-> <<>>, all |-> <<>>]

Remaining == DOMAIN sample_blast_tsv \ {sample_order[k] : k \in DOMAIN sample_order}

\* faulty variant of BlastTsvToDfStep: a file that does not parse is taken as
\* an empty table and the run goes on
BlastTsvToDfSkipBad(sample) ==
    /\ main_pc = "ingest"
    /\ sample \in Remaining
    /\ sample_order' = Append(sample_order, sample)
    /\ sample_dfs' = sample_dfs @@ (sample :>
                        IF ReadRaises(sample_blast_tsv[sample]) THEN <<>>
                        ELSE SampleDf(sample, sample_blast_tsv[sample], top_n_results))
    /\ UNCHANGED <<main_pc, error, xlsx, present_fastas, partitioned, recs, dirs, outfiles>>
    /\ UNCHANGED <<cov_vars, input_vars>>

\* blast_tsv_to_df, one iteration of its loop: a file that does not parse
\* raises, and nothing catches it
BlastTsvToDfStep(sample) ==
    /\ main_pc = "ingest"
    /\ sample \in Remaining
    /\ sample_order' = Append(sample_order, sample)
    /\ IF ReadRaises(sample_blast_tsv[sample])
       THEN /\ main_pc' = "aborted"
            /\ error' = "ParserError"
            /\ UNCHANGED sample_dfs
       ELSE /\ sample_dfs' = sample_dfs @@ (sample :>
                                 SampleDf(sample, sample_blast_tsv[sample], top_n_results))
            /\ UNCHANGED <<main_pc, error>>
    /\ UNCHANGED <<xlsx, present_fastas, partitioned, recs, dirs, outfiles>>
    /\ UNCHANGED <<cov_vars, input_vars>>

\* blast_tsv_to_df returns when the loop is over
BlastTsvToDfReturn ==
    /\ main_pc = "ingest"
    /\ Remaining = {}
    /\ main_pc' = "report"
    /\ UNCHANGED <<error, sample_order, sample_dfs, xlsx, present_fastas, partitioned,
                   recs, dirs, outfiles>>
    /\ UNCHANGED <<cov_vars, input_vars>>

\* output_xlsx_report: pd.concat of no frames raises ValueError, and so does
\* subj_cov on a subject whose alignment lengths sum to 0; the summary of a
\* sample without rows raises KeyError
OutputXlsxReport ==
    /\ main_pc = "report"
    /\ IF sample_order = <<>> \/ SummaryError(sample_order, sample_dfs) # ""
       THEN /\ main_pc' = "aborted"
            /\ error' = (IF sample_order = <<>> THEN "ValueError"
                         ELSE SummaryError(sample_order, sample_dfs))
            /\ UNCHANGED xlsx
       ELSE LET df_concat == DfConcat(sample_order, sample_dfs)
            IN  /\ xlsx' = [written |-> TRUE,
                            summary |-> ConcatSummaries(sample_order, sample_dfs),
                            top |-> TopResultsPerQuerySeq(df_concat),
                            all |-> df_concat]
                /\ main_pc' = IF seq_dir THEN "collect" ELSE "done"
                /\ UNCHANGED error
    /\ UNCHANGED <<sample_order, sample_dfs, present_fastas, partitioned, recs, dirs, outfiles>>
    /\ UNCHANGED <<cov_vars, input_vars>>

\* faulty variant of CollectFastas: every sample with a hit table is handed
\* to the partitioning
CollectFastasAllSamples ==
    /\ main_pc = "collect"
    /\ present_fastas' = DOMAIN sample_blast_tsv
    /\ main_pc' = "partition"
    /\ UNCHANGED <<error, sample_order, sample_dfs, xlsx, partitioned, recs, dirs, outfiles>>
    /\ UNCHANGED <<cov_vars, input_vars>>

\* collect_fastas, and the creation of seq_outdir
CollectFastas ==
    /\ main_pc = "collect"
    /\ present_fastas' = DOMAIN sample_blast_tsv \cap DOMAIN fastas
    /\ main_pc' = "partition"
    /\ UNCHANGED <<error, sample_order, sample_dfs, xlsx, partitioned, recs, dirs, outfiles>>
    /\ UNCHANGED <<cov_vars, input_vars>>

\* write_seqs_to_taxonomy_dirs, one iteration of its loop over present_fastas;
\* sample_dfs[sample] and fastas[sample] raise KeyError for a sample that
\* is not a key
WriteSeqsSample(sample) ==
    /\ main_pc = "partition"
    /\ sample \in present_fastas \ partitioned
    /\ IF sample \notin DOMAIN sample_dfs \/ sample \notin DOMAIN fastas
       THEN /\ main_pc' = "aborted"
            /\ error' = "KeyError"
            /\ UNCHANGED <<partitioned, recs, dirs, outfiles>>
       ELSE
       LET df_top == DfTop(sample_dfs[sample])
           order == DirnameOrder(df_top)
           out == RecsAtWrite(fastas[sample], df_top, keep_orientation)
           missing_recs == DOMAIN out \ Queries(df_top)
           fail == FirstKeyError(df_top, DOMAIN out)
           last == IF fail = 0 THEN Len(order) ELSE fail - 1
           made == IF fail = 0 THEN Len(order) ELSE fail
       IN  /\ recs' = recs @@ (sample :> out)
           /\ dirs' = dirs
                        \cup (IF missing_recs # {} THEN {<<sample, NoHitsDir>>} ELSE {})
                        \cup {<<sample, order[k]>> : k \in 1..made}
           /\ outfiles' = outfiles
                        \cup (IF missing_recs # {}
                              THEN {[sample |-> sample, dirname |-> NoHitsDir,
                                     records |-> {out[r] : r \in missing_recs}]}
                              ELSE {})
                        \cup {[sample |-> sample, dirname |-> order[k],
                               records |-> {out[q] : q \in DirnameQueries(df_top, order[k])}] :
                                 k \in 1..last}
           /\ IF fail = 0
              THEN /\ partitioned' = partitioned \cup {sample}
                   /\ UNCHANGED <<main_pc, error>>
              ELSE /\ main_pc' = "aborted"
                   /\ error' = "KeyError"
                   /\ UNCHANGED partitioned
    /\ UNCHANGED <<sample_order, sample_dfs, xlsx, present_fastas>>
    /\ UNCHANGED <<cov_vars, input_vars>>

\* write_seqs_to_taxonomy_dirs returns and main ends
WriteSeqsReturn ==
    /\ main_pc = "partition"
    /\ present_fastas \ partitioned = {}
    /\ main_pc' = "done"
    /\ UNCHANGED <<error, sample_order, sample_dfs, xlsx, present_fastas, partitioned,
                   recs, dirs, outfiles>>
    /\ UNCHANGED <<cov_vars, input_vars>>

----------------------------------------------------------------------------
(* Specification SpecCov: subj_cov applied to one group of rows *)

CovRow(L, s, e, p, a) ==
    [Subject_Length |-> L, Subject_Start |-> s, Subject_End |-> e,
     Percent_Identity |-> p, Alignment_Length |-> a]

\* groups whose coordinates vary (identity and length fixed)
CovGroups ==
    UNION {
        {g \in SeqsUpTo({CovRow(L, s, e, 100, 1) : s \in 1..L, e \in 1..L}, MaxAlns) :
            g # <<>>} : L \in 1..MaxSubjLen}

\* the two overlapping forward intervals on a subject of length 200
ScenarioB == <<CovRow(200, 10, 50, 100, 1), CovRow(200, 40, 100, 100, 1)>>

\* groups whose identities and alignment lengths vary (coordinates fixed)
PidGroups ==
    {g \in SeqsUpTo({CovRow(1, 1, 1, p, a) : p \in PidValues, a \in AlnValues}, MaxAlns) :
        g # <<>>}

\* main is not running
MainIdle ==
    /\ sample_blast_tsv = <<>>
    /\ top_n_results = -1
    /\ seq_dir = FALSE
    /\ fastas = <<>>
    /\ keep_orientation = FALSE
    /\ main_pc = "idle"
    /\ error = ""
    /\ sample_order = <<>>
    /\ sample_dfs = <<>>
    /\ xlsx = NoReport
    /\ present_fastas = {}
    /\ partitioned = {}
    /\ recs = <<>>
    /\ dirs = {}
    /\ outfiles = {}

InitCov ==
    /\ dfg \in CovGroups \cup {ScenarioB}
    /\ cov_pc = "call"
    /\ cov_result = [raised |-> ""]
    /\ MainIdle

InitPid ==
    /\ dfg \in PidGroups
    /\ cov_pc = "call"
    /\ cov_result = [raised |-> ""]
    /\ MainIdle

SubjCovCall ==
    /\ cov_pc = "call"
    /\ cov_result' = subj_cov(dfg)
    /\ cov_pc' = IF cov_result'.raised = "" THEN "returned" ELSE "raised"
    /\ UNCHANGED dfg
    /\ UNCHANGED <<input_vars, main_vars>>

NextCov == SubjCovCall

vars == <<cov_vars, input_vars, main_vars>>

SpecCov == InitCov /\ [][NextCov]_vars

SpecPid == InitPid /\ [][NextCov]_vars

----------------------------------------------------------------------------
(* Specifications of cli.main: the same steps from three families of inputs *)

HitRow(q, subj, pid, aln, ss, se, bits, slen, taxid, sciname) ==
    [Query |-> q, Subject |-> subj, Percent_Identity |-> pid, Alignment_Length |-> aln,
     Subject_Start |-> ss, Subject_End |-> se, Bitscore |-> bits, Subject_Length |-> slen,
     Subject_Title |-> "title", Subject_taxid |-> taxid, Subject_Sciname |-> sciname]

File(rows) == [malformed |-> FALSE, rows |-> rows]

MalformedFile == [malformed |-> TRUE, rows |-> <<>>]

Unclassified == <<"u", "n", "c", "l", "a", "s", "s", "i", "f", "i", "e", "d">>

FSpaceV == <<"F", " ", "v">>

FDotV == <<"F", ".", "v">>

FastaSeq(id) == IF id = "q1" THEN <<"A", "C">> ELSE IF id = "q2" THEN <<"A", "T">> ELSE <<"G">>

FastaRec(id) == [id |-> id, name |-> id, description |-> <<id, " desc">>, seq |-> FastaSeq(id)]

Fasta(ids) == [id \in ids |-> FastaRec(id)]

TopNValues == {-1, 0, 1, 2}

MainStart ==
    /\ dfg = <<>>
    /\ cov_pc = "idle"
    /\ cov_result = [raised |-> ""]
    /\ main_pc = "ingest"
    /\ error = ""
    /\ sample_order = <<>>
    /\ sample_dfs = <<>>
    /\ xlsx = NoReport
    /\ present_fastas = {}
    /\ partitioned = {}
    /\ recs = <<>>
    /\ dirs = {}
    /\ outfiles = {}

\* hit tables of up to two samples whose queries and bitscores vary
RankRows == {HitRow(q, "A", 100, 1, 1, 1, b, 1, 1, FSpaceV) : q \in {"q1", "q2"}, b \in {1, 2}}

RankFiles == {File(rows) : rows \in SeqsUpTo(RankRows, MaxRows)} \cup {MalformedFile}

\* the second sample's table has at most one row
RankFilesShort == {File(rows) : rows \in SeqsUpTo(RankRows, 1)} \cup {MalformedFile}

Init ==
    /\ \E S \in SUBSET {"s1", "s2"} :
          /\ sample_blast_tsv \in [S -> RankFiles]
          /\ "s2" \in S => sample_blast_tsv["s2"] \in RankFilesShort
    /\ top_n_results \in TopNValues
    /\ seq_dir \in BOOLEAN
    /\ fastas = ("s1" :> Fasta({"q1"}))
    /\ keep_orientation = FALSE
    /\ MainStart

\* one sample whose hits vary in orientation and bitscore, with a FASTA file
\* that may lack a query or hold one without hits
PartRows ==
    {HitRow(q, "A", 100, 1, c[1], c[2], b, 2, 1, FSpaceV) :
        q \in {"q1", "q2"}, c \in {<<1, 2>>, <<2, 1>>}, b \in {1, 2}}

\* one sample whose hits vary in taxid, scientific name and bitscore
BucketRows ==
    {HitRow(q, "A", 100, 1, 1, 2, b, 2, t[1], t[2]) :
        q \in {"q1", "q2"}, b \in {1, 2},
        t \in {<<0, Unclassified>>, <<0, FSpaceV>>, <<1, FSpaceV>>, <<1, FDotV>>}}

InitBucket ==
    /\ sample_blast_tsv \in [{"s1"} -> {File(rows) : rows \in SeqsUpTo(BucketRows, MaxPartRows)}]
    /\ top_n_results = -1
    /\ seq_dir = TRUE
    /\ \E ids \in SUBSET {"q1", "q3"} : fastas = ("s1" :> Fasta(ids))
    /\ keep_orientation \in BOOLEAN
    /\ MainStart

InitPart ==
    /\ sample_blast_tsv \in [{"s1"} -> {File(rows) : rows \in SeqsUpTo(PartRows, MaxPartRows)}]
    /\ top_n_results = -1
    /\ seq_dir = TRUE
    /\ \E ids \in SUBSET {"q1", "q3"} : fastas = ("s1" :> Fasta(ids))
    /\ keep_orientation \in BOOLEAN
    /\ MainStart

\* one sample with one alignment per subject, on up to MaxSubjects subjects
SubjectRows(k) ==
    {HitRow("q1", StrOrder[k], c[1], 1, 1, c[2], 1, 3, 1, FSpaceV) :
        c \in {<<100, 1>>, <<99, 2>>, <<100, 2>>}}

RECURSIVE SubjectTablesOf(_)
SubjectTablesOf(n) ==
    IF n = 0 THEN {<<>>}
    ELSE {Append(rows, r) : rows \in SubjectTablesOf(n - 1), r \in SubjectRows(n)}

SubjectTables == UNION {SubjectTablesOf(n) : n \in 1..MaxSubjects}

InitSummary ==
    /\ sample_blast_tsv \in [{"s1"} -> {File(rows) : rows \in SubjectTables}]
    /\ top_n_results = -1
    /\ seq_dir = TRUE
    /\ fastas = ("s1" :> Fasta({"q1"}))
    /\ keep_orientation = FALSE
    /\ MainStart

\* one hit per table, of a query the FASTA files hold or of one they lack
InputRows == {HitRow(q, "A", 100, 1, 1, 2, 1, 2, 1, FSpaceV) : q \in {"q1", "q2"}}

\* a table without rows, with one row, or malformed
InputFiles == {File(<<>>), MalformedFile} \cup {File(<<r>>) : r \in InputRows}

\* an input directory with the hit tables of any of two samples, and a
\* sequence directory with the FASTA files of any of these two and of a third
InitInputs ==
    /\ \E S \in SUBSET {"s1", "s2"} : sample_blast_tsv \in [S -> InputFiles]
    /\ top_n_results = -1
    /\ seq_dir \in BOOLEAN
    /\ \E F \in SUBSET {"s1", "s2", "s3"} : fastas = [sample \in F |-> Fasta({"q1"})]
    /\ keep_orientation = FALSE
    /\ MainStart

Next ==
    \/ \E sample \in DOMAIN sample_blast_tsv : BlastTsvToDfStep(sample)
    \/ BlastTsvToDfReturn
    \/ OutputXlsxReport
    \/ CollectFastas
    \/ \E sample \in present_fastas : WriteSeqsSample(sample)
    \/ WriteSeqsReturn

Spec == Init /\ [][Next]_vars

SpecPart == InitPart /\ [][Next]_vars

SpecBucket == InitBucket /\ [][Next]_vars

SpecSummary == InitSummary /\ [][Next]_vars

SpecInputs == InitInputs /\ [][Next]_vars

----------------------------------------------------------------------------
(* Properties of subj_cov (SpecCov, SpecPid) *)

\* the 1-based positions of the subject inside an alignment of one direction
CoveredPositions(rows, forward) ==
    {p \in 1..rows[1].Subject_Length : \E k \in DOMAIN rows :
        IF forward
        THEN rows[k].Subject_Start <= rows[k].Subject_End
             /\ rows[k].Subject_Start <= p /\ p <= rows[k].Subject_End
        ELSE rows[k].Subject_Start > rows[k].Subject_End
             /\ rows[k].Subject_End <= p /\ p <= rows[k].Subject_Start}

Abs(x) == IF x < 0 THEN -x ELSE x

\* C1: with all coordinates in [1, L], the forward mask holds exactly the
\* positions inside a forward interval and the reverse mask exactly those
\* inside a reverse interval, so the counts are the sizes of these position
\* sets and one interval alone covers |end - start| + 1 positions.
C1_MasksCoverIntervals ==
    cov_pc = "returned" =>
        /\ cov_result.forward_aligned_positions = Cardinality(CoveredPositions(dfg, TRUE))
        /\ cov_result.reverse_aligned_positions = Cardinality(CoveredPositions(dfg, FALSE))
        /\ cov_result.total_aligned_positions =
              Cardinality(CoveredPositions(dfg, TRUE) \cup CoveredPositions(dfg, FALSE))
        /\ Len(dfg) = 1 =>
              cov_result.total_aligned_positions =
                  Abs(dfg[1].Subject_End - dfg[1].Subject_Start) + 1

\* C2: the summary has total <= L, total = forward + reverse - overlap and
\* unaligned = L - total >= 0.
C2_CoverageIdentity ==
    cov_pc = "returned" =>
        /\ cov_result.total_aligned_positions <= cov_result.subject_length
        /\ cov_result.total_aligned_positions =
              cov_result.forward_aligned_positions + cov_result.reverse_aligned_positions
                  - cov_result.forward_reverse_aligned_positions_overlap
        /\ cov_result.unaligned_positions =
              cov_result.subject_length - cov_result.total_aligned_positions
        /\ cov_result.unaligned_positions >= 0

\* a summary of a subject aligned in both directions, with overlap and a gap
C2_Witness ==
    /\ cov_pc = "returned"
    /\ cov_result.forward_reverse_aligned_positions_overlap > 0
    /\ cov_result.forward_aligned_positions > cov_result.forward_reverse_aligned_positions_overlap
    /\ cov_result.unaligned_positions > 0

\* C8: for every non-empty group (identities in [0, 100], alignment lengths
\* >= 0) subj_cov yields the length-weighted mean identity, scaled by 100 and
\* truncated toward zero, and the percentage it stands for lies in [0, 100].
C8_WeightedIdentity ==
    cov_pc # "call" =>
        /\ cov_pc = "returned"
        /\ cov_result.avg_pid * AlnSum(dfg) <= 100 * PidSum(dfg)
        /\ 100 * PidSum(dfg) < (cov_result.avg_pid + 1) * AlnSum(dfg)
        /\ 0 <= cov_result.avg_pid /\ cov_result.avg_pid <= 100 * 100

----------------------------------------------------------------------------
(* Properties of ingestion and of the report (Spec) *)

\* the parsed rows of a sample's file, as a set
FileRows(sample) ==
    {read_blast_tsv(sample_blast_tsv[sample])[i] @@ ("Sample" :> sample) :
        i \in DOMAIN sample_blast_tsv[sample].rows}

RetainedRows(sample) == {sample_dfs[sample][k] : k \in DOMAIN sample_dfs[sample]}

\* o is a better hit than r for the same query: a higher bitscore, or the same
\* bitscore earlier in the file
Outranks(o, r) ==
    /\ o.Query = r.Query
    /\ \/ o.Bitscore > r.Bitscore
       \/ o.Bitscore = r.Bitscore /\ o.row < r.row

C4_TopNRetained ==
    \A sample \in DOMAIN sample_dfs :
        /\ Cardinality(RetainedRows(sample)) = Len(sample_dfs[sample])
        /\ IF top_n_results > 0
           THEN /\ RetainedRows(sample) =
                      {r \in FileRows(sample) :
                          Cardinality({o \in FileRows(sample) : Outranks(o, r)}) < top_n_results}
                /\ \A r \in RetainedRows(sample) :
                      Cardinality({o \in RetainedRows(sample) : o.Query = r.Query})
                          <= top_n_results
           ELSE RetainedRows(sample) = FileRows(sample)
        /\ \A i, j \in DOMAIN sample_dfs[sample] :
              Outranks(sample_dfs[sample][i], sample_dfs[sample][j]) => i < j

\* a limit of 1 drops the first row of a file: a later row of the same query
\* has the higher bitscore
C4_Witness ==
    /\ top_n_results = 1
    /\ \E sample \in DOMAIN sample_dfs :
          \E r \in FileRows(sample) \ RetainedRows(sample) :
              \E o \in RetainedRows(sample) : o.Query = r.Query /\ o.row > r.row

\* C10: when the ingestion of a sample's hit table fails the run aborts and
\* no report is written, also when other samples were ingested before; the
\* report is written only after every sample was ingested.
C10_NoReportAfterFailedIngestion ==
    /\ (\E k \in DOMAIN sample_order : ReadRaises(sample_blast_tsv[sample_order[k]])) =>
          /\ main_pc = "aborted"
          /\ ~xlsx.written
          /\ outfiles = {}
    /\ xlsx.written =>
          \A sample \in DOMAIN sample_blast_tsv :
              /\ sample \in DOMAIN sample_dfs
              /\ ~ReadRaises(sample_blast_tsv[sample])

\* a malformed file met after another sample was ingested
C10_Witness ==
    /\ main_pc = "aborted"
    /\ Len(sample_order) = 2
    /\ sample_order[1] \in DOMAIN sample_dfs
    /\ sample_blast_tsv[sample_order[2]].malformed
    /\ ~xlsx.written

----------------------------------------------------------------------------
(* Properties of the report's Summary sheet (SpecSummary) *)

\* C5: the Summary rows of a sample are its per-subject summaries sorted by
\* (total_aligned_positions, average identity) descending, cut to the first 5:
\* no omitted subject has more total_aligned_positions than a kept one.
C5_SummaryKeepsTopFive ==
    xlsx.written =>
        \A sample \in DOMAIN sample_dfs :
            LET every == SubjCovRows(sample_dfs[sample])
                kept == SelectIdx(xlsx.summary,
                            {k \in DOMAIN xlsx.summary : xlsx.summary[k].sample = sample})
                keptSubjects == {kept[k].Subject : k \in DOMAIN kept}
            IN  /\ Len(kept) = (IF Len(every) < HeadSubjects THEN Len(every) ELSE HeadSubjects)
                /\ \A i, j \in DOMAIN kept :
                      i < j => kept[i].total_aligned_positions >= kept[j].total_aligned_positions
                /\ \A o \in DOMAIN every : \A k \in DOMAIN kept :
                      every[o].Subject \notin keptSubjects =>
                          every[o].total_aligned_positions <= kept[k].total_aligned_positions

----------------------------------------------------------------------------
(* Properties of write_seqs_to_taxonomy_dirs (SpecPart, SpecBucket) *)

HasHit(sample, rid) == \E r \in FileRows(sample) : r.Query = rid

\* the top hit of a query: the row of its sample's file no other row outranks
TopHit(sample, rid) ==
    CHOOSE r \in FileRows(sample) :
        r.Query = rid /\ \A o \in FileRows(sample) : ~Outranks(o, r)

Tokens(description) == {description[k] : k \in DOMAIN description}

FilesHolding(sample, rid) ==
    {f \in outfiles : f.sample = sample /\ recs[sample][rid] \in f.records}

UnclassifiedDir ==
    <<"u", "n", "c", "l", "a", "s", "s", "i", "f", "i", "e", "d", "-", "0">>

\* the label of a top hit: its scientific name with every character outside
\* letters, digits and "_" replaced by "_", then "-" and the taxon id
ExpectedLabel(row) ==
    [i \in DOMAIN row.Subject_Sciname |->
        IF row.Subject_Sciname[i] \in {" ", ".", "-"} THEN "_" ELSE row.Subject_Sciname[i]]
    \o <<"-", ToString(row.Subject_taxid)>>

\* C6: every sequence record of a sample with a FASTA file is emitted to
\* exactly one bucket: "0-no-hits" if its id has no hit, otherwise the label
\* of its top hit; none is emitted twice or dropped.
C6_EveryRecordInOneBucket ==
    \A sample \in DOMAIN recs : \A rid \in DOMAIN fastas[sample] :
        /\ Cardinality(FilesHolding(sample, rid)) = 1
        /\ \A f \in FilesHolding(sample, rid) :
              f.dirname = (IF HasHit(sample, rid)
                           THEN ExpectedLabel(TopHit(sample, rid)) ELSE NoHitsDir)

\* C7: a record is reverse-complemented iff keep_orientation is false and its
\* top hit has subject_start > subject_end; it then keeps its id and its
\* description carries the marker; with keep_orientation every record is the
\* input record; and the files hold the records so oriented.
C7_ReverseComplementIffReverseHit ==
    /\ \A sample \in DOMAIN recs : \A rid \in DOMAIN fastas[sample] :
          LET in == fastas[sample][rid]
              out == recs[sample][rid]
              reverse == /\ ~keep_orientation
                         /\ HasHit(sample, rid)
                         /\ TopHit(sample, rid).Subject_Start > TopHit(sample, rid).Subject_End
          IN  /\ reverse => /\ out.seq = ReverseComplement(in.seq)
                            /\ out.id = in.id
                            /\ "|REVCOMP" \in Tokens(out.description)
              /\ ~reverse => /\ out.seq = in.seq
                             /\ out.id = in.id
                             /\ "|REVCOMP" \notin Tokens(out.description)
              /\ keep_orientation => out = in
    /\ \A f \in outfiles :
          f.records \subseteq {recs[f.sample][rid] : rid \in DOMAIN recs[f.sample]}

\* a record whose best hit is on the reverse strand although an earlier,
\* weaker hit is forward, written reverse-complemented to its bucket
C7_Witness ==
    /\ ~keep_orientation
    /\ \E sample \in partitioned : \E rid \in DOMAIN fastas[sample] :
          /\ HasHit(sample, rid)
          /\ TopHit(sample, rid).Subject_Start > TopHit(sample, rid).Subject_End
          /\ \E o \in FileRows(sample) :
                /\ o.Query = rid
                /\ o.row < TopHit(sample, rid).row
                /\ o.Subject_Start < o.Subject_End
          /\ recs[sample][rid].seq # fastas[sample][rid].seq
          /\ FilesHolding(sample, rid) # {}

\* C9: a query whose top hit has taxon id 0 is in the bucket "unclassified-0"
\* whatever the scientific name, and a query without hit in "0-no-hits".
C9_ReservedBuckets ==
    \A sample \in partitioned : \A rid \in DOMAIN fastas[sample] :
        \A f \in FilesHolding(sample, rid) :
            /\ (HasHit(sample, rid) /\ TopHit(sample, rid).Subject_taxid = 0) =>
                  f.dirname = UnclassifiedDir
            /\ ~HasHit(sample, rid) => f.dirname = NoHitsDir

----------------------------------------------------------------------------
(* Properties of cli.main on empty and unmatched inputs (SpecInputs) *)

\* an empty input: no hit-table file, a hit table without rows, or a
\* sequence directory without FASTA files
EmptyInput ==
    \/ DOMAIN sample_blast_tsv = {}
    \/ \E sample \in DOMAIN sample_blast_tsv :
          ~sample_blast_tsv[sample].malformed /\ sample_blast_tsv[sample].rows = <<>>
    \/ seq_dir /\ DOMAIN fastas = {}

\* C11: a run on an empty input (no hit-table file, a hit table without
\* rows, or no FASTA file) whose hit tables all parse never ends in an
\* exception: every step completes, and the run ends with the report written.
C11_EmptyInputsCompleteWithoutError ==
    (EmptyInput /\ \A sample \in DOMAIN sample_blast_tsv : ~sample_blast_tsv[sample].malformed) =>
        /\ main_pc # "aborted"
        /\ main_pc = "done" => xlsx.written

\* the samples with both a hit table and a FASTA file
Matched == DOMAIN sample_blast_tsv \cap DOMAIN fastas

\* the samples a sheet of the report has rows of
SheetSamples(sheet) == {sheet[i].Sample : i \in DOMAIN sheet}

\* a matched sample whose hit table holds a query that its FASTA file lacks
LacksQuery(sample) ==
    \E i \in DOMAIN sample_blast_tsv[sample].rows :
        sample_blast_tsv[sample].rows[i].Query \notin DOMAIN fastas[sample]

\* C12: a sample with a hit table and no FASTA file, or with a FASTA file
\* and no hit table, is skipped for partitioning and never aborts the run:
\* the partitioning is given exactly the samples present in both sets, reads
\* records and creates directories and files for these only, and ends having
\* partitioned each of them; a written report holds every sample with a hit
\* table in its result sheets; and a run aborts only for a cause other than
\* the missing correspondence (no hit table at all, a hit table that is
\* malformed or has no rows, or a matched sample whose FASTA file lacks a
\* query of its hit table).
C12_UnmatchedSamplesAreSkipped ==
    /\ present_fastas \subseteq Matched
    /\ (main_pc \in {"partition", "done"} /\ seq_dir) => present_fastas = Matched
    /\ partitioned \subseteq DOMAIN recs
    /\ DOMAIN recs \subseteq Matched
    /\ \A d \in dirs : d[1] \in Matched
    /\ \A f \in outfiles : f.sample \in Matched
    /\ (main_pc = "done" /\ seq_dir) => partitioned = Matched
    /\ main_pc \in {"collect", "partition", "done"} => xlsx.written
    /\ xlsx.written =>
          /\ SheetSamples(xlsx.all) = DOMAIN sample_blast_tsv
          /\ SheetSamples(xlsx.top) = DOMAIN sample_blast_tsv
    /\ (main_pc = "aborted" /\ ~xlsx.written) =>
          \/ DOMAIN sample_blast_tsv = {}
          \/ \E sample \in DOMAIN sample_blast_tsv :
                sample_blast_tsv[sample].malformed \/ sample_blast_tsv[sample].rows = <<>>
    /\ (main_pc = "aborted" /\ xlsx.written) =>
          \E sample \in DOMAIN recs : sample \in Matched /\ LacksQuery(sample)

\* a completed run with one sample partitioned, one sample with a hit table
\* and no FASTA file, and a FASTA file of a sample without hit table
C12_Witness ==
    /\ main_pc = "done"
    /\ partitioned = {"s1"}
    /\ \E d \in dirs : d[1] = "s1"
    /\ "s2" \in DOMAIN sample_blast_tsv \ DOMAIN fastas
    /\ "s3" \in DOMAIN fastas \ DOMAIN sample_blast_tsv
    /\ "s2" \in SheetSamples(xlsx.all)

\* C13: every query id that write_seqs_to_taxonomy_dirs places in a bucket
\* has a record in the sample's FASTA collection, so writing a bucket never
\* looks up a missing record and the partitioning of a sample, once begun,
\* completes, also when the hit table holds a query id the FASTA file lacks.
C13_BucketQueriesHaveRecords ==
    \A sample \in DOMAIN recs :
        /\ Queries(DfTop(sample_dfs[sample])) \subseteq DOMAIN recs[sample]
        /\ sample \in partitioned

====
